---------------------------- MODULE Spec2Model ----------------------------
(***************************************************************************)
(* Session lifecycle of pulseapi.Session (src/pulseapi/session.py).         *)
(*                                                                         *)
(* Each Session instance owns a token and a host (the endpoint); it talks  *)
(* to the controller through two remote calls, the open request            *)
(* (open_session_with_http_info) and the delete request (delete_session).  *)
(* The controller is the environment: it answers each request with         *)
(* success or with an error, and keeps the set of live sessions.  An error *)
(* answer leaves the controller's state as it was.                         *)
(*                                                                         *)
(* Every constructed instance is driven by one caller.  A handler runs as  *)
(* one step; the body of a `with` block is the interval between the entry  *)
(* step and the exit step, in which the caller may read the token and      *)
(* rebind the location, and which ends normally or by raising.             *)
(***************************************************************************)
EXTENDS Integers, Sequences, FiniteSets

\* ------------------------------------------------------------------ bounds
\* Requests one Session instance may put on the wire in a run.
MaxReqs == 3

\* Requests each of two instances may send when they run side by side.
MaxTwoReqs == 2
\* Requests the shared instance may send when two callers use it at once.
MaxRaceReqs == 4
\* Jog components range over -MaxAbs .. MaxAbs.
MaxAbs == 2
\* Longest angles sequence given to pose.
MaxAngles == 7
\* Longest point or rotation sequence given to position.
MaxComps == 4
\* Longest actions list given to position.
MaxActions == 2

\* ------------------------------------------------------------ value domains
\* self._token = None
None == 0

READ_WRITE == "READ_WRITE"
READ_ONLY == "READ_ONLY"
Modes == {READ_WRITE, READ_ONLY}

Sessions == {"s1", "s2"}
Endpoints == {"e1", "e2"}

\* Exceptions the two remote calls can raise into the handler.
RemoteErrors == {"AuthenticationError", "TransportError", "Cancelled"}
\* Exceptions a `with` body can raise.
BodyErrors == {"BodyError"}
NoErr == "none"
\* The callers that share one Session instance.
Threads == {"t1", "t2"}

VARIABLES
    made,       \* the Session instances that have been constructed
    token,      \* token[s]   : self._token
    host,       \* host[s]    : self._api.api_client.configuration.host
    pc,         \* pc[s]      : where the caller of s is: idle, rw_body, ro_body
    issued,     \* controller : issued[k] = who got token k, where, in which mode
    live,       \* controller : the tokens whose session is live
    wire,       \* wire[s]    : the requests s has sent, in order
    entered,    \* entered[s] : the token obtained at the entry of the current scope
    broken,     \* broken[s]  : the caller opened while a token was held
    result,     \* result[s]  : what the last handler call gave back to the caller
    built,      \* the last call of a payload builder: its arguments and what it gave
    thread,     \* thread[t] : where caller t of the shared instance is, and its locals
    lapped,     \* a call on the shared instance began while another was in progress
    stale       \* a delete was sent for a token that was closed already, or for None

vars == <<made, token, host, pc, issued, live, wire, entered, broken, result, built,
          thread, lapped, stale>>

\* -------------------------------------------------------------- controller
OpenReq(ep, mode) == [op |-> "open", ep |-> ep, mode |-> mode, tok |-> None]
DeleteReq(ep, tok) == [op |-> "delete", ep |-> ep, mode |-> "-", tok |-> tok]

\* READ_WRITE is exclusive per endpoint, READ_ONLY is shared.
CanGrant(lv, iss, ep, mode) ==
    \/ mode = READ_ONLY
    \/ ~\E k \in lv : iss[k].ep = ep /\ iss[k].mode = READ_WRITE

\* What the open request can come back with.
OpenOutcomes(lv, iss, ep, mode) ==
    RemoteErrors \cup (IF CanGrant(lv, iss, ep, mode) THEN {"ok"} ELSE {})

\* What the delete request can come back with: a token unknown at the
\* addressed endpoint is refused, a known one is closed unless the call
\* is cut short.
DeleteOutcomes(lv, iss, ep, tok) ==
    {"TransportError", "Cancelled"}
        \cup (IF tok \in lv /\ iss[tok].ep = ep THEN {"ok"} ELSE {"AuthenticationError"})

\* ---------------------------------------------------------------- handlers
\* A handler is a function of the frame it runs in: the instance's fields,
\* the controller's state and the wire; exc is the exception it leaves with.
Frame(s) ==
    [self |-> s, token |-> token[s], host |-> host[s], issued |-> issued,
     live |-> live, wire |-> wire[s], exc |-> NoErr]

\* open_session that swallows the error of the open request.
open_session_swallows(f, mode, out) ==
    LET sent == [f EXCEPT !.wire = Append(@, OpenReq(f.host, mode))]
    IN  IF out = "ok"
        THEN [sent EXCEPT
                !.issued = Append(@, [owner |-> f.self, ep |-> f.host, mode |-> mode]),
                !.live = @ \cup {Len(f.issued) + 1},
                !.token = Len(f.issued) + 1]
        ELSE sent

\* open_session that does not store the token of the response.
open_session_drops_token(f, mode, out) ==
    LET sent == [f EXCEPT !.wire = Append(@, OpenReq(f.host, mode))]
    IN  IF out = "ok"
        THEN [sent EXCEPT
                !.issued = Append(@, [owner |-> f.self, ep |-> f.host, mode |-> mode]),
                !.live = @ \cup {Len(f.issued) + 1}]
        ELSE [sent EXCEPT !.exc = out]

\* open_session that sends the open request again when it failed.
open_session_retries(f, mode, out) ==
    LET sent == [f EXCEPT !.wire = Append(@, OpenReq(f.host, mode))]
    IN  IF out = "ok"
        THEN [sent EXCEPT
                !.issued = Append(@, [owner |-> f.self, ep |-> f.host, mode |-> mode]),
                !.live = @ \cup {Len(f.issued) + 1},
                !.token = Len(f.issued) + 1]
        ELSE [sent EXCEPT !.wire = Append(@, OpenReq(f.host, mode)), !.exc = out]

\* Session.open_session
open_session(f, mode, out) ==
    LET sent == [f EXCEPT !.wire = Append(@, OpenReq(f.host, mode))]
        new == Len(f.issued) + 1
    IN  IF out = "ok"
        THEN [sent EXCEPT
                !.issued = Append(@, [owner |-> f.self, ep |-> f.host, mode |-> mode]),
                !.live = @ \cup {new},
                !.token = new]
        ELSE [sent EXCEPT !.exc = out]

\* close_session without the check that a token is held.
close_session_unguarded(f, out) ==
    LET sent == [f EXCEPT !.wire = Append(@, DeleteReq(f.host, f.token))]
    IN  IF out = "ok"
        THEN [sent EXCEPT !.live = @ \ {f.token}, !.token = None]
        ELSE [sent EXCEPT !.exc = out]

\* close_session that clears the token also when the delete request failed.
close_session_always_clears(f, out) ==
    IF f.token # None
    THEN LET sent == [f EXCEPT !.wire = Append(@, DeleteReq(f.host, f.token))]
         IN  IF out = "ok"
             THEN [sent EXCEPT !.live = @ \ {f.token}, !.token = None]
             ELSE [sent EXCEPT !.token = None, !.exc = out]
    ELSE f

\* Session.close_session
close_session(f, out) ==
    IF f.token # None
    THEN LET sent == [f EXCEPT !.wire = Append(@, DeleteReq(f.host, f.token))]
         IN  IF out = "ok"
             THEN [sent EXCEPT !.live = @ \ {f.token}, !.token = None]
             ELSE [sent EXCEPT !.exc = out]
    ELSE f

\* __enter__ that opens with the READ_ONLY marker.
enter_read_only(f, out) == open_session(f, READ_ONLY, out)

\* Session.__enter__
enter(f, out) == open_session(f, READ_WRITE, out)

\* __exit__ that re-raises the body's error without closing first.
exit_raises_before_close(f, exc_value, out) ==
    IF exc_value # NoErr THEN [f EXCEPT !.exc = exc_value] ELSE close_session(f, out)

\* Session.__exit__
exit(f, exc_value, out) ==
    LET c == close_session(f, out)
    IN  IF c.exc # NoErr THEN c
        ELSE IF exc_value # NoErr THEN [c EXCEPT !.exc = exc_value]
        ELSE c

\* Session.ro_context up to the yield
ro_context_enter(f, openOut, closeOut) ==
    LET o == open_session(f, READ_ONLY, openOut)
    IN  IF o.exc = NoErr THEN o
        ELSE LET c == close_session([o EXCEPT !.exc = NoErr], closeOut)
             IN  IF c.exc # NoErr THEN c ELSE [c EXCEPT !.exc = o.exc]

\* Session.ro_context from the yield on
ro_context_exit(f, exc_value, out) ==
    LET c == close_session(f, out)
    IN  IF c.exc # NoErr THEN c ELSE [c EXCEPT !.exc = exc_value]

\* Session.token
Token(s) == token[s]

\* Session.location (setter)
set_location(f, new_location) == [f EXCEPT !.host = new_location]

\* ----------------------------------------------------------------- actions
\* The outcomes the delete request of frame f can have (none is sent when no
\* token is held; "ok" then stands for the call that is not made).
CloseOuts(f) ==
    IF f.token = None THEN {"ok"}
    ELSE DeleteOutcomes(f.live, f.issued, f.host, f.token)

Outcome(op, f, g, open, body, close) ==
    [op |-> op, exc |-> g.exc, open |-> open, body |-> body,
     close |-> IF Len(g.wire) > Len(f.wire) /\ g.wire[Len(g.wire)].op = "delete"
               THEN close ELSE NoErr,
     held |-> f.token, mark |-> Len(f.wire), value |-> None]

\* Commit for a token kept on the class, shared by all instances.
Commit_shared_token(s, g, r) ==
    /\ Len(g.wire) <= MaxReqs
    /\ token' = [x \in Sessions |-> g.token]
    /\ host' = [host EXCEPT ![s] = g.host]
    /\ issued' = g.issued
    /\ live' = g.live
    /\ wire' = [wire EXCEPT ![s] = g.wire]
    /\ result' = [result EXCEPT ![s] = r]
    /\ UNCHANGED <<made, built, thread, lapped, stale>>

\* Writes the frame g a handler ended in back to the state.
Commit(s, g, r) ==
    /\ Len(g.wire) <= MaxReqs
    /\ token' = [token EXCEPT ![s] = g.token]
    /\ host' = [host EXCEPT ![s] = g.host]
    /\ issued' = g.issued
    /\ live' = g.live
    /\ wire' = [wire EXCEPT ![s] = g.wire]
    /\ result' = [result EXCEPT ![s] = r]
    /\ UNCHANGED <<made, built, thread, lapped, stale>>

\* s.open_session(mode), called by the caller of s
OpenSessionAs(s, mode) ==
    /\ pc[s] = "idle"
    /\ \E out \in OpenOutcomes(live, issued, host[s], mode) :
            LET f == Frame(s)
                g == open_session(f, mode, out)
            IN  Commit(s, g, Outcome("open", f, g, out, NoErr, NoErr))
    /\ broken' = [broken EXCEPT ![s] = @ \/ token[s] # None]
    /\ UNCHANGED <<pc, entered>>

OpenSession(s) == \E mode \in Modes : OpenSessionAs(s, mode)

CloseSession(s) ==
    /\ pc[s] = "idle"
    /\ \E out \in CloseOuts(Frame(s)) :
            LET f == Frame(s)
                g == close_session(f, out)
            IN  Commit(s, g, Outcome("close", f, g, NoErr, NoErr, out))
    /\ UNCHANGED <<pc, entered, broken>>

EnterRW(s) ==
    /\ pc[s] = "idle"
    /\ \E out \in OpenOutcomes(live, issued, host[s], READ_WRITE) :
            LET f == Frame(s)
                g == enter(f, out)
            IN  /\ Commit(s, g, Outcome("rw_enter", f, g, out, NoErr, NoErr))
                /\ pc' = [pc EXCEPT ![s] = IF g.exc = NoErr THEN "rw_body" ELSE "idle"]
                /\ entered' = [entered EXCEPT ![s] = IF g.exc = NoErr THEN g.token ELSE None]
    /\ broken' = [broken EXCEPT ![s] = @ \/ token[s] # None]

ExitRW(s) ==
    /\ pc[s] = "rw_body"
    /\ \E exc_value \in BodyErrors \cup {NoErr} :
        \E out \in CloseOuts(Frame(s)) :
            LET f == Frame(s)
                g == exit(f, exc_value, out)
            IN  Commit(s, g, Outcome("rw_exit", f, g, NoErr, exc_value, out))
    /\ pc' = [pc EXCEPT ![s] = "idle"]
    /\ UNCHANGED <<entered, broken>>

EnterRO(s) ==
    /\ pc[s] = "idle"
    /\ \E openOut \in OpenOutcomes(live, issued, host[s], READ_ONLY) :
        \E closeOut \in (IF openOut = "ok" THEN {"ok"} ELSE CloseOuts(Frame(s))) :
            LET f == Frame(s)
                g == ro_context_enter(f, openOut, closeOut)
            IN  /\ Commit(s, g, Outcome("ro_enter", f, g, openOut, NoErr, closeOut))
                /\ pc' = [pc EXCEPT ![s] = IF openOut = "ok" THEN "ro_body" ELSE "idle"]
                /\ entered' = [entered EXCEPT ![s] = IF openOut = "ok" THEN g.token ELSE None]
    /\ broken' = [broken EXCEPT ![s] = @ \/ token[s] # None]

ExitRO(s) ==
    /\ pc[s] = "ro_body"
    /\ \E exc_value \in BodyErrors \cup {NoErr} :
        \E out \in CloseOuts(Frame(s)) :
            LET f == Frame(s)
                g == ro_context_exit(f, exc_value, out)
            IN  Commit(s, g, Outcome("ro_exit", f, g, NoErr, exc_value, out))
    /\ pc' = [pc EXCEPT ![s] = "idle"]
    /\ UNCHANGED <<entered, broken>>

GetToken(s) ==
    /\ result' = [result EXCEPT ![s] =
            [op |-> "get_token", exc |-> NoErr, open |-> NoErr, body |-> NoErr, close |-> NoErr,
             held |-> token[s], mark |-> Len(wire[s]), value |-> Token(s)]]
    /\ UNCHANGED <<made, token, host, pc, issued, live, wire, entered, broken, built,
                 thread, lapped, stale>>

SetLocation(s) ==
    /\ \E new_location \in Endpoints :
            LET f == Frame(s)
                g == set_location(f, new_location)
            IN  Commit(s, g, Outcome("set_location", f, g, NoErr, NoErr, NoErr))
    /\ UNCHANGED <<pc, entered, broken>>

\* Session.__init__
SessionInit ==
    /\ made = {"s1"}
    /\ token = [s \in Sessions |-> None]
    /\ host \in {h \in [Sessions -> Endpoints] : \A s \in Sessions \ made : h[s] = "e1"}
    /\ pc = [s \in Sessions |-> "idle"]
    /\ issued = <<>>
    /\ live = {}
    /\ wire = [s \in Sessions |-> <<>>]
    /\ entered = [s \in Sessions |-> None]
    /\ broken = [s \in Sessions |-> FALSE]
    /\ result = [s \in Sessions |->
            [op |-> "init", exc |-> NoErr, open |-> NoErr, body |-> NoErr, close |-> NoErr,
             held |-> None, mark |-> 0, value |-> None]]
    /\ thread = [t \in Threads |-> [pc |-> "idle", tok |-> None]]
    /\ lapped = FALSE
    /\ stale = FALSE

Init ==
    /\ SessionInit
    /\ built = [fn |-> "none"]

Next ==
    \/ \E s \in made : OpenSession(s)
    \/ \E s \in made : CloseSession(s)
    \/ \E s \in made : EnterRW(s)
    \/ \E s \in made : ExitRW(s)
    \/ \E s \in made : EnterRO(s)
    \/ \E s \in made : ExitRO(s)
    \/ \E s \in made : GetToken(s)
    \/ \E s \in made : SetLocation(s)

Spec == Init /\ [][Next]_vars

\* ------------------------------------------------- calls made inside a scope
\* The body of a scope is caller code: it may itself call open_session and
\* close_session on the instance, and the body of the read-write scope may
\* enter ro_context (pc "rw_ro_body" is the body of that inner scope).  An
\* exception of such a call is caught by the body or ends it; either way the
\* scope is left through its exit.
InBody(s) == pc[s] \in {"rw_body", "ro_body", "rw_ro_body"}

BodyOpen(s) ==
    /\ InBody(s)
    /\ \E mode \in Modes :
        \E out \in OpenOutcomes(live, issued, host[s], mode) :
            LET f == Frame(s)
                g == open_session(f, mode, out)
            IN  Commit(s, g, Outcome("open", f, g, out, NoErr, NoErr))
    /\ broken' = [broken EXCEPT ![s] = @ \/ token[s] # None]
    /\ UNCHANGED <<pc, entered>>

BodyClose(s) ==
    /\ InBody(s)
    /\ \E out \in CloseOuts(Frame(s)) :
            LET f == Frame(s)
                g == close_session(f, out)
            IN  Commit(s, g, Outcome("close", f, g, NoErr, NoErr, out))
    /\ UNCHANGED <<pc, entered, broken>>

EnterRONested(s) ==
    /\ pc[s] = "rw_body"
    /\ \E openOut \in OpenOutcomes(live, issued, host[s], READ_ONLY) :
        \E closeOut \in (IF openOut = "ok" THEN {"ok"} ELSE CloseOuts(Frame(s))) :
            LET f == Frame(s)
                g == ro_context_enter(f, openOut, closeOut)
            IN  /\ Commit(s, g, Outcome("ro_enter", f, g, openOut, NoErr, closeOut))
                /\ pc' = [pc EXCEPT ![s] = IF openOut = "ok" THEN "rw_ro_body" ELSE "rw_body"]
    /\ broken' = [broken EXCEPT ![s] = @ \/ token[s] # None]
    /\ UNCHANGED entered

ExitRONested(s) ==
    /\ pc[s] = "rw_ro_body"
    /\ \E exc_value \in BodyErrors \cup {NoErr} :
        \E out \in CloseOuts(Frame(s)) :
            LET f == Frame(s)
                g == ro_context_exit(f, exc_value, out)
            IN  Commit(s, g, Outcome("ro_exit", f, g, NoErr, exc_value, out))
    /\ pc' = [pc EXCEPT ![s] = "rw_body"]
    /\ UNCHANGED <<entered, broken>>

NextNested ==
    \/ \E s \in made : OpenSession(s)
    \/ \E s \in made : CloseSession(s)
    \/ \E s \in made : EnterRW(s)
    \/ \E s \in made : ExitRW(s)
    \/ \E s \in made : EnterRO(s)
    \/ \E s \in made : ExitRO(s)
    \/ \E s \in made : GetToken(s)
    \/ \E s \in made : SetLocation(s)
    \/ \E s \in made : BodyOpen(s)
    \/ \E s \in made : BodyClose(s)
    \/ \E s \in made : EnterRONested(s)
    \/ \E s \in made : ExitRONested(s)

SpecNested == Init /\ [][NextNested]_vars

\* ------------------------------------------ two instances, one controller
\* Two Session objects constructed for the same location, each with its own
\* caller; their open_session and close_session calls interleave.
InitTwo ==
    /\ made = Sessions
    /\ token = [s \in Sessions |-> None]
    /\ host = [s \in Sessions |-> "e1"]
    /\ pc = [s \in Sessions |-> "idle"]
    /\ issued = <<>>
    /\ live = {}
    /\ wire = [s \in Sessions |-> <<>>]
    /\ entered = [s \in Sessions |-> None]
    /\ broken = [s \in Sessions |-> FALSE]
    /\ result = [s \in Sessions |->
            [op |-> "init", exc |-> NoErr, open |-> NoErr, body |-> NoErr, close |-> NoErr,
             held |-> None, mark |-> 0, value |-> None]]
    /\ thread = [t \in Threads |-> [pc |-> "idle", tok |-> None]]
    /\ lapped = FALSE
    /\ stale = FALSE
    /\ built = [fn |-> "none"]

TwoOpen(s) == OpenSession(s) /\ Len(wire'[s]) <= MaxTwoReqs

TwoClose(s) == CloseSession(s) /\ Len(wire'[s]) <= MaxTwoReqs

NextTwo ==
    \/ \E s \in made : TwoOpen(s)
    \/ \E s \in made : TwoClose(s)

SpecTwo == InitTwo /\ [][NextTwo]_vars

\* ---------------------------------------------------------- payload builders
\* (src/pulseapi/utils.py)  The DTO classes come from the pdhttp client; a
\* builder hands its arguments to their constructors unchanged.  Whether a
\* constructor checks what it is given is not decided in this repository:
\* `strict` is TRUE for a client that refuses a missing or out-of-range
\* field and FALSE for one that stores what it gets.

SeqsUpTo(S, n) == UNION {[1..k -> S] : k \in 0..n}

JogValues == -MaxAbs..MaxAbs
AngleValues == {10, 20}
\* Coordinates; None stands for a field left at its default.
CoordValues == {1, 2}
ActionValues == {"output", "gripper"}
\* actions=None, and the lists of actions that can be given instead.
NoActions == [given |-> FALSE, list |-> <<>>]
ActionLists == {[given |-> TRUE, list |-> l] : l \in SeqsUpTo(ActionValues, MaxActions)}

InJogRange(v) == -1 <= v /\ v <= 1

\* Point(*point), Rotation(*rotation): three positional parameters.  More
\* than three arguments is a TypeError of the call; fewer leaves the rest at
\* the default, which a strict constructor refuses.
Unpack3(c, strict) ==
    IF Len(c) > 3 THEN [exc |-> "TypeError", val |-> None]
    ELSE IF Len(c) < 3 /\ strict THEN [exc |-> "ValueError", val |-> None]
    ELSE [exc |-> NoErr,
          val |-> [i \in 1..3 |-> IF i <= Len(c) THEN c[i] ELSE None]]

\* position
position(point, rotation, actions, strict) ==
    LET p == Unpack3(point, strict)
        r == Unpack3(rotation, strict)
    IN  IF p.exc # NoErr THEN [exc |-> p.exc]
        ELSE IF r.exc # NoErr THEN [exc |-> r.exc]
        ELSE [exc |-> NoErr, point |-> p.val, rotation |-> r.val, actions |-> actions]

\* pose: Pose(angles); the actions argument is not passed on.
pose(angles, actions, strict) ==
    IF strict /\ Len(angles) # 6 THEN [exc |-> "ValueError"]
    ELSE [exc |-> NoErr, angles |-> angles, actions |-> NoActions]

\* jog: JoggingAcceleration(JoggingAccelerationAcceleration(x, y, z, rx, ry, rz))
jog(x, y, z, rx, ry, rz, strict) ==
    IF strict /\ \E v \in {x, y, z, rx, ry, rz} : ~InJogRange(v)
    THEN [exc |-> "ValueError"]
    ELSE [exc |-> NoErr, acceleration |-> <<x, y, z, rx, ry, rz>>]

\* A call that has been made and has not returned yet.
Pending == [exc |-> "pending"]

CallPosition ==
    /\ built.fn = "position" /\ built.out = Pending
    /\ \E strict \in BOOLEAN :
            built' = [built EXCEPT
                !.out = position(built.point, built.rotation, built.actions, strict)]
    /\ UNCHANGED <<made, token, host, pc, issued, live, wire, entered, broken, result,
                 thread, lapped, stale>>

CallPose ==
    /\ built.fn = "pose" /\ built.out = Pending
    /\ \E strict \in BOOLEAN :
            built' = [built EXCEPT !.out = pose(built.angles, NoActions, strict)]
    /\ UNCHANGED <<made, token, host, pc, issued, live, wire, entered, broken, result,
                 thread, lapped, stale>>

\* jog() with the defaults is the call with six zeros.
CallJog ==
    /\ built.fn = "jog" /\ built.out = Pending
    /\ \E strict \in BOOLEAN :
            LET a == built.args
            IN  built' = [built EXCEPT
                    !.out = jog(a[1], a[2], a[3], a[4], a[5], a[6], strict)]
    /\ UNCHANGED <<made, token, host, pc, issued, live, wire, entered, broken, result,
                 thread, lapped, stale>>

\* One builder call with arguments drawn from the bounded domains.
InitBuild ==
    /\ SessionInit
    /\ built \in
        {[fn |-> "position", point |-> p, rotation |-> r, actions |-> a, out |-> Pending] :
            p \in SeqsUpTo(CoordValues, MaxComps), r \in SeqsUpTo(CoordValues, MaxComps),
            a \in ActionLists \cup {NoActions}}
        \cup {[fn |-> "pose", angles |-> a, out |-> Pending] :
            a \in SeqsUpTo(AngleValues, MaxAngles)}
        \cup {[fn |-> "jog", args |-> a, out |-> Pending] : a \in [1..6 -> JogValues]}

NextBuild ==
    \/ CallPosition
    \/ CallPose
    \/ CallJog

SpecBuild == InitBuild /\ [][NextBuild]_vars

\* --------------------------------------- one instance, two callers at once
\* Two callers share the instance "s1" with no lock.  A call is a run of
\* steps of one thread, each step one read or write of self._token or one
\* remote call, and the steps of the two threads interleave freely.
\* open_session : the remote open, then the store of the token;
\* close_session: the test of the token, the remote delete of the token read
\*                at that moment, then the store of None.
Other(t) == CHOOSE u \in Threads : u # t

\* Thread t begins a call: it overlaps if the other thread is inside one.
Begins(t) == lapped' = (lapped \/ thread[Other(t)].pc # "idle")

\* open_session_with_http_info(mode) and the read of the response headers
RaceOpenCall(t) ==
    /\ thread[t].pc = "idle"
    /\ Len(wire["s1"]) < MaxRaceReqs
    /\ \E mode \in Modes : \E out \in OpenOutcomes(live, issued, host["s1"], mode) :
        /\ wire' = [wire EXCEPT !["s1"] = Append(@, OpenReq(host["s1"], mode))]
        /\ IF out = "ok"
           THEN /\ issued' = Append(issued,
                        [owner |-> "s1", ep |-> host["s1"], mode |-> mode])
                /\ live' = live \cup {Len(issued) + 1}
                /\ thread' = [thread EXCEPT
                        ![t] = [pc |-> "o_store", tok |-> Len(issued) + 1]]
           ELSE UNCHANGED <<issued, live, thread>>
    /\ broken' = [broken EXCEPT !["s1"] = @ \/ token["s1"] # None]
    /\ Begins(t)
    /\ UNCHANGED <<made, token, host, pc, entered, result, built, stale>>

\* self._token = headers[...]
RaceOpenStore(t) ==
    /\ thread[t].pc = "o_store"
    /\ token' = [token EXCEPT !["s1"] = thread[t].tok]
    /\ thread' = [thread EXCEPT ![t] = [pc |-> "idle", tok |-> None]]
    /\ UNCHANGED <<made, host, pc, issued, live, wire, entered, broken, result, built,
                   lapped, stale>>

\* if self._token is not None
RaceCloseCheck(t) ==
    /\ thread[t].pc = "idle"
    /\ token["s1"] # None
    /\ thread' = [thread EXCEPT ![t].pc = "c_call"]
    /\ Begins(t)
    /\ UNCHANGED <<made, token, host, pc, issued, live, wire, entered, broken, result,
                   built, stale>>

\* self._api.delete_session(self._token): the field is read when the call
\* is made, and an exception leaves the call with the field as it is.
RaceCloseCall(t) ==
    /\ thread[t].pc = "c_call"
    /\ Len(wire["s1"]) < MaxRaceReqs
    /\ \E out \in DeleteOutcomes(live, issued, host["s1"], token["s1"]) :
        /\ wire' = [wire EXCEPT !["s1"] = Append(@, DeleteReq(host["s1"], token["s1"]))]
        /\ live' = IF out = "ok" THEN live \ {token["s1"]} ELSE live
        /\ thread' = [thread EXCEPT ![t].pc = IF out = "ok" THEN "c_clear" ELSE "idle"]
    /\ stale' = (stale \/ token["s1"] \notin live)
    /\ UNCHANGED <<made, token, host, pc, issued, entered, broken, result, built, lapped>>

\* close_session whose last step leaves the token where it is.
RaceCloseClear_keeps_token(t) ==
    /\ thread[t].pc = "c_clear"
    /\ thread' = [thread EXCEPT ![t].pc = "idle"]
    /\ UNCHANGED <<made, token, host, pc, issued, live, wire, entered, broken, result,
                   built, lapped, stale>>

\* self._token = None
RaceCloseClear(t) ==
    /\ thread[t].pc = "c_clear"
    /\ token' = [token EXCEPT !["s1"] = None]
    /\ thread' = [thread EXCEPT ![t].pc = "idle"]
    /\ UNCHANGED <<made, host, pc, issued, live, wire, entered, broken, result, built,
                   lapped, stale>>

NextRace ==
    \/ \E t \in Threads : RaceOpenCall(t)
    \/ \E t \in Threads : RaceOpenStore(t)
    \/ \E t \in Threads : RaceCloseCheck(t)
    \/ \E t \in Threads : RaceCloseCall(t)
    \/ \E t \in Threads : RaceCloseClear(t)

SpecRace == Init /\ [][NextRace]_vars

\* ------------------------------------------------------------ properties
\* The number of delete requests s has sent for token tok.
DeleteCount(s, tok) ==
    Cardinality({i \in 1..Len(wire[s]) : wire[s][i].op = "delete" /\ wire[s][i].tok = tok})

\* The remote delete of the last call of s was sent and failed.
CloseFailed(s) == result[s].close \notin {NoErr, "ok"}

\* C1: close_session() called while a token is held always ends with
\* token = None, whether the remote delete succeeds or raises.
C1_CloseAlwaysClears ==
    \A s \in made :
        (result[s].op = "close" /\ result[s].held # None) => token[s] = None

\* C2: when the body of the read-write scope raises, the token is None right
\* after the scope exits and the caller gets the body's own error, whatever
\* the remote close did.
C2_BodyErrorLeavesClosed ==
    \A s \in made :
        (result[s].op = "rw_exit" /\ result[s].body # NoErr)
            => (token[s] = None /\ result[s].exc = result[s].body)

\* C3: as long as the caller never opened while holding a token, the token is
\* not None exactly when the controller holds a live session issued to this
\* instance on its current endpoint.
C3_TokenIffLiveSession ==
    \A s \in made :
        ~broken[s] =>
            ((token[s] # None)
                <=> (\E k \in live : issued[k].owner = s /\ issued[k].ep = host[s]))

\* C4: every successful entry into the read-write scope is matched by exactly
\* one delete request for the token obtained at entry; none is sent while the
\* body runs, and the one request is sent by the exit, before control leaves
\* the scope, whether the body returned or raised.
C4_ExactlyOneCloseRW ==
    \A s \in made :
        /\ pc[s] = "rw_body" =>
                (entered[s] # None /\ token[s] = entered[s]
                    /\ DeleteCount(s, entered[s]) = 0)
        /\ result[s].op = "rw_exit" =>
                (/\ DeleteCount(s, entered[s]) = 1
                 /\ Len(wire[s]) = result[s].mark + 1
                 /\ wire[s][Len(wire[s])] = DeleteReq(host[s], entered[s]))

\* C4 witness: a read-write scope whose body raised has just been left, and
\* its one delete request failed remotely.
C4_Witness ==
    \E s \in made :
        /\ result[s].op = "rw_exit"
        /\ result[s].body # NoErr
        /\ CloseFailed(s)
        /\ DeleteCount(s, entered[s]) = 1

\* C5: when the remote close of a scope exit fails, the token is None after
\* the exit; the caller gets the close error if the body ended normally and
\* the body's error if the body raised.  Read-write scope and ro_context.
C5_FailedCloseOnExit ==
    \A s \in made :
        (result[s].op \in {"rw_exit", "ro_exit"} /\ CloseFailed(s))
            => /\ token[s] = None
               /\ result[s].exc =
                    (IF result[s].body = NoErr THEN result[s].close ELSE result[s].body)

\* C6: ro_context closes the session on every exit of its body: exactly one
\* delete request for the token obtained at entry, token None afterwards, and
\* a body error reaches the caller; an entry whose open fails with no token
\* held sends no delete request and leaves the token None.
C6_ReadOnlyScopeCloses ==
    \A s \in made :
        /\ result[s].op = "ro_exit" =>
                (/\ DeleteCount(s, entered[s]) = 1
                 /\ token[s] = None
                 /\ (result[s].body # NoErr => result[s].exc = result[s].body))
        /\ (result[s].op = "ro_enter" /\ result[s].open # "ok" /\ result[s].held = None) =>
                (/\ Len(wire[s]) = result[s].mark + 1
                 /\ wire[s][Len(wire[s])].op = "open"
                 /\ token[s] = None)

\* C7: close_session() with no token held sends nothing to the controller,
\* raises nothing and leaves the token None; so the second of two
\* consecutive closes sends no delete request.
C7_CloseWithoutTokenIsNoOp ==
    \A s \in made :
        (result[s].op = "close" /\ result[s].held = None)
            => (/\ Len(wire[s]) = result[s].mark
                /\ result[s].exc = NoErr
                /\ token[s] = None)

\* C7 witness: a close with no token held has just returned, and the last
\* request on the wire is the delete of the close before it.
C7_Witness ==
    \E s \in made :
        /\ result[s].op = "close"
        /\ result[s].held = None
        /\ Len(wire[s]) >= 2
        /\ wire[s][Len(wire[s])].op = "delete"
        /\ wire[s][Len(wire[s])].tok \notin live

\* C8: an open that fails (rejected, cancelled, transport failure) while no
\* token is held hands the error to the caller and leaves the token None;
\* through __enter__ the caller stays outside the scope and the one request
\* sent is the open request, no delete.
C8_FailedOpenStaysClosed ==
    \A s \in made :
        (result[s].op \in {"open", "rw_enter"}
            /\ result[s].held = None /\ result[s].open # "ok")
            => (/\ result[s].exc = result[s].open
                /\ result[s].exc \in RemoteErrors
                /\ token[s] = None
                /\ pc[s] = "idle"
                /\ Len(wire[s]) = result[s].mark + 1
                /\ wire[s][Len(wire[s])].op = "open")

\* C8 witness: the entry of a read-write scope has just failed by
\* cancellation, after an earlier open of the same instance was rejected.
C8_Witness ==
    \E s \in made :
        /\ result[s].op = "rw_enter"
        /\ result[s].held = None
        /\ result[s].open = "Cancelled"
        /\ Len(wire[s]) >= 2
        /\ live = {}

\* C9: a location set while a token is held is refused with an error and
\* leaves the endpoint as it was; the endpoint changes only while CLOSED.
C9_LocationFrozenWhileOpen ==
    [][\A s \in made :
        (token[s] # None /\ SetLocation(s))
            => (host'[s] = host[s] /\ result'[s].exc # NoErr)]_vars

\* C10: over any number of cycles, a successful open_session leaves the
\* token the controller issued for that open (not None, live), every
\* close_session leaves None, and reading token returns the stored token,
\* raises nothing and changes neither the Session nor the controller.
C10_RoundTrip ==
    [][\A s \in made :
        /\ (OpenSession(s) /\ result'[s].exc = NoErr) =>
                (/\ token'[s] # None
                 /\ token'[s] = Len(issued')
                 /\ issued'[token'[s]].owner = s
                 /\ token'[s] \in live' \ live)
        /\ CloseSession(s) => token'[s] = None
        /\ GetToken(s) =>
                (/\ result'[s].value = token[s]
                 /\ result'[s].exc = NoErr
                 /\ UNCHANGED <<token, host, pc, issued, live, wire>>)]_vars

\* The requests the last call of s put on the wire.
SentByLast(s) == SubSeq(wire[s], result[s].mark + 1, Len(wire[s]))

\* The number of open requests in the sequence of requests q.
OpenCount(q) == Cardinality({i \in 1..Len(q) : q[i].op = "open"})

\* C11: every open request carries the mode that was asked for:
\* open_session(mode) sends mode, __enter__ sends READ_WRITE, ro_context
\* sends READ_ONLY, and the two markers differ.
C11_ModeCarried ==
    [][\A s \in made :
        /\ \A mode \in Modes :
                OpenSessionAs(s, mode) =>
                    wire'[s] = Append(wire[s], OpenReq(host[s], mode))
        /\ EnterRW(s) =>
                (/\ wire'[s] = Append(wire[s], OpenReq(host[s], READ_WRITE))
                 /\ wire'[s][Len(wire'[s])] # OpenReq(host[s], READ_ONLY))
        /\ EnterRO(s) =>
                (/\ wire'[s][Len(wire[s]) + 1] = OpenReq(host[s], READ_ONLY)
                 /\ wire'[s][Len(wire[s]) + 1] # OpenReq(host[s], READ_WRITE))]_vars

\* C11 witness: an instance has entered ro_context after it went through
\* the read-write scope: both markers are on its wire.
C11_Witness ==
    \E s \in made :
        /\ pc[s] = "ro_body"
        /\ Len(wire[s]) = 3
        /\ wire[s][1].mode = READ_WRITE
        /\ wire[s][2].op = "delete"
        /\ wire[s][3].mode = READ_ONLY

\* C12: every call that opens (open_session, __enter__, ro_context) sends
\* exactly one open request, whether it is granted, rejected, cancelled or
\* lost: no retry.
C12_OneOpenRequest ==
    \A s \in made :
        /\ result[s].op \in {"open", "rw_enter", "ro_enter"} =>
                (/\ OpenCount(SentByLast(s)) = 1
                 /\ SentByLast(s)[1].op = "open")
        /\ result[s].op \in {"open", "rw_enter"} => Len(SentByLast(s)) = 1

\* C12 witness: an open_session has just failed on the transport, after an
\* earlier open request of the same instance had been rejected.
C12_Witness ==
    \E s \in made :
        /\ result[s].op = "open"
        /\ result[s].open = "TransportError"
        /\ result[s].mark >= 1
        /\ wire[s][result[s].mark].op = "open"
        /\ live = {}

\* C13: jog fails and builds nothing when a component lies outside [-1, 1];
\* with all six inside (bounds included) it returns the vector of its
\* arguments, the zero vector for the defaults.
C13_JogRange ==
    (built.fn = "jog" /\ built.out # Pending) =>
        IF \E i \in 1..6 : ~InJogRange(built.args[i])
        THEN built.out.exc # NoErr
        ELSE built.out.exc = NoErr /\ built.out.acceleration = built.args

\* C14: pose fails for every angles sequence whose length is not 6, and for
\* six angles returns a Pose with the same angles in the same order.
C14_PoseShape ==
    (built.fn = "pose" /\ built.out # Pending) =>
        IF Len(built.angles) # 6
        THEN built.out.exc # NoErr
        ELSE built.out.exc = NoErr /\ built.out.angles = built.angles

\* C15: position returns, for a point and a rotation of three components
\* each, a Position with that point, that rotation and the given actions in
\* order; it fails when point or rotation has another length.
C15_PositionShape ==
    (built.fn = "position" /\ built.out # Pending) =>
        IF Len(built.point) = 3 /\ Len(built.rotation) = 3
        THEN /\ built.out.exc = NoErr
             /\ built.out.point = built.point
             /\ built.out.rotation = built.rotation
             /\ built.out.actions = built.actions
        ELSE built.out.exc # NoErr

\* The tokens the controller has issued to s.
IssuedTo(s) == {k \in 1..Len(issued) : issued[k].owner = s}

\* C17: no state is terminal.  A close_session with a token held sends the
\* delete for that token; if the remote call succeeds the Session is CLOSED,
\* if it fails the token is kept, so the next close retries the same token.
\* A CLOSED Session can be opened with success, and a Session whose token is
\* live on its endpoint can be closed with success.
C17_NoTerminalState ==
    [][\A s \in made :
        /\ (CloseSession(s) /\ token[s] # None) =>
                (/\ wire'[s] = Append(wire[s], DeleteReq(host[s], token[s]))
                 /\ (result'[s].close = "ok" => token'[s] = None)
                 /\ (result'[s].close # "ok" =>
                        (token'[s] = token[s] /\ result'[s].exc = result'[s].close)))
        /\ (pc[s] = "idle" /\ Len(wire[s]) < MaxReqs /\ token[s] = None) =>
                ENABLED (OpenSession(s) /\ token'[s] # None)
        /\ (pc[s] = "idle" /\ Len(wire[s]) < MaxReqs /\ token[s] \in live
                /\ issued[token[s]].ep = host[s]) =>
                ENABLED (CloseSession(s) /\ token'[s] = None)]_vars

\* C17 witness: a close has just succeeded on the token whose close had
\* failed before: the same token was sent twice and the Session is CLOSED.
C17_Witness ==
    \E s \in made :
        /\ result[s].op = "close"
        /\ result[s].close = "ok"
        /\ token[s] = None
        /\ Len(wire[s]) = 3
        /\ wire[s][2].op = "delete"
        /\ wire[s][3] = wire[s][2]

\* C18: every delete request carries the token stored by the instance's most
\* recent successful open and goes to the endpoint that token was issued on,
\* after any sequence of open, close and location-set operations.
C18_CloseAddressesIssuer ==
    [][\A s \in made :
        (Len(wire'[s]) > Len(wire[s]) /\ wire'[s][Len(wire'[s])].op = "delete") =>
            (/\ token[s] # None
             /\ \A k \in IssuedTo(s) : k <= token[s]
             /\ wire'[s][Len(wire'[s])].tok = token[s]
             /\ wire'[s][Len(wire'[s])].ep = issued[token[s]].ep)]_vars

\* The live sessions the controller holds for s.
LiveOf(s) == {k \in live : issued[k].owner = s}

\* Every token issued to s is the one s holds or has been sent in a delete.
NoOrphan(s) == \A k \in IssuedTo(s) : k = token[s] \/ DeleteCount(s, k) >= 1

\* C16 (as stated): after any sequence of open_session, close_session and
\* scope entries and exits on one instance, the controller holds at most one
\* live session of the instance and no token issued to it is orphaned.
C16_NoOrphanedToken ==
    \A s \in made : Cardinality(LiveOf(s)) <= 1 /\ NoOrphan(s)

\* C16 (amended): the same, for a caller that never opened (open_session,
\* __enter__, ro_context) while a token was held.
C16_NoOrphanUnlessReopened ==
    \A s \in made : ~broken[s] => (Cardinality(LiveOf(s)) <= 1 /\ NoOrphan(s))

\* C16 witness: inside the read-write scope the body closed the session and
\* then entered ro_context; the second token is held, the first was closed.
C16_Witness ==
    \E s \in made :
        /\ pc[s] = "rw_ro_body"
        /\ ~broken[s]
        /\ token[s] = 2
        /\ live = {2}
        /\ DeleteCount(s, 1) = 1

\* The instances that hold a token obtained in READ_WRITE mode.
HoldersRW == {s \in made : token[s] # None /\ issued[token[s]].mode = READ_WRITE}

\* s made a call in this step: its wire, its result or its token changed.
Called(s) == wire'[s] # wire[s] \/ result'[s] # result[s] \/ token'[s] # token[s]

\* C19: two instances on one controller that grants one READ_WRITE session.
\* At most one instance holds a READ_WRITE token; a READ_WRITE open made
\* while the other instance holds one is not granted, and an open that is
\* rejected raises AuthenticationError and leaves the token as it was (None
\* for a CLOSED instance); a call on one instance leaves the other's token
\* alone; while one instance holds a READ_ONLY token the other can obtain one.
C19_TwoInstances ==
    [][\A s \in made : \A o \in made \ {s} :
        /\ Cardinality(HoldersRW') <= 1
        /\ (Called(s) /\ o \in HoldersRW /\ Len(wire'[s]) > Len(wire[s])
                /\ wire'[s][Len(wire'[s])] = OpenReq(host[s], READ_WRITE)) =>
                (result'[s].open # "ok" /\ token'[s] = token[s])
        /\ (Called(s) /\ result'[s].op = "open"
                /\ result'[s].open = "AuthenticationError") =>
                (result'[s].exc = "AuthenticationError" /\ token'[s] = token[s])
        /\ Called(s) => token'[o] = token[o]
        /\ (o \notin HoldersRW /\ token[o] # None /\ Len(wire[s]) < MaxTwoReqs) =>
                ENABLED (TwoOpen(s) /\ token'[s] # None /\ token'[o] # None
                            /\ issued'[token'[s]].mode = READ_ONLY)]_vars

\* C19 witness: s1 holds a READ_WRITE token and the READ_WRITE open of s2
\* has just been rejected: s2 is CLOSED and s1's token is untouched.
C19_Witness ==
    /\ made = Sessions
    /\ HoldersRW = {"s1"}
    /\ token["s1"] \in live
    /\ result["s2"].op = "open"
    /\ result["s2"].exc = "AuthenticationError"
    /\ wire["s2"][Len(wire["s2"])].mode = READ_WRITE
    /\ token["s2"] = None

\* No caller of the shared instance is inside a call.
Quiet == \A t \in Threads : thread[t].pc = "idle"

\* C20: one instance shared by two callers with no lock is not safe.  While
\* no two calls overlap, no delete is sent for a token that was closed
\* already and, between calls, a caller that never opened over a held token
\* has at most one live session and no orphaned token; the witness shows
\* that overlapping calls lose both: two close_session calls each send a
\* delete for the same token, and of two open_session calls that both began
\* with no token held one token is overwritten and never closed.
C20_UnsafeOnlyWhenOverlapped ==
    ~lapped =>
        /\ ~stale
        /\ (Quiet /\ ~broken["s1"]) =>
                (Cardinality(LiveOf("s1")) <= 1 /\ NoOrphan("s1"))

\* C20 witness: both opens began with no token held, token 1 was overwritten
\* by token 2 and is live with no delete sent for it; then both closes
\* passed the test and each sent a delete for token 2.
C20_Witness ==
    /\ lapped /\ stale /\ Quiet
    /\ ~broken["s1"]
    /\ Len(issued) = 2
    /\ 1 \in live /\ DeleteCount("s1", 1) = 0
    /\ DeleteCount("s1", 2) = 2
    /\ token["s1"] = None

=============================================================================
